---------------------------- MODULE Spec2Model ----------------------------
(***************************************************************************)
(* A model of pz-pack: the pack container codec (src/pz-pack/src/lib.rs)   *)
(* and the entry geometry validator of the command line tool               *)
(* (src/pz-pack-tool/src/main.rs).                                         *)
(*                                                                         *)
(* A reader is the sequence of bytes it has still to deliver; a byte is a  *)
(* number in 0..255.  Every read returns a record [ok, val, rest]: whether *)
(* it succeeded, what it read, and the reader after it.                    *)
(*                                                                         *)
(* Three specifications share the variables:                               *)
(*   Spec      Pack::write / Pack::write_with / Pack::read on a sink       *)
(*   SpecPrim  read_string, read_buffer and the read_until_pattern loop    *)
(*   SpecGeom  EntryConfig::from_entry, EntryConfig::into_entry and then   *)
(*             Entry::get_image                                            *)
(***************************************************************************)
EXTENDS Integers, Sequences, FiniteSets, TLC

VARIABLES
    pack,       \* the in-memory Pack handed to write ([mask, pages])
    version,    \* FormatVersion the running write call uses
    pc,         \* position of the running call
    pageIdx,    \* number of pages the write loop has written
    sink,       \* every byte the writer has accepted so far
    flushedLen, \* how many bytes of sink a flush has pushed through
    flushes,    \* number of successful flush calls
    wres,       \* result of the write call: "none", "Ok", "Err"
    variant,    \* reader Pack::read dispatched to: "none", "V1", "V2"
    rres,       \* result of Pack::read
    input,      \* SpecPrim: the byte stream handed to the primitive
    buf,        \* SpecPrim: read_until_pattern's accumulation buffer
    pos,        \* SpecPrim: bytes of input consumed so far
    pres,       \* SpecPrim: the primitive's result
    atlas,      \* SpecGeom: the atlas bitmap
    orig,       \* SpecGeom: the Entry handed to from_entry, if one is
    cfg,        \* SpecGeom: the EntryConfig
    eres,       \* SpecGeom: result of into_entry
    ires        \* SpecGeom: result of get_image

codecVars == <<pack, version, pc, pageIdx, sink, flushedLen, flushes, wres, variant, rres>>
primVars == <<input, buf, pos, pres>>
geomVars == <<atlas, orig, cfg, eres, ires>>
vars == <<codecVars, primVars, geomVars>>

----------------------------------------------------------------------------
(* Bytes and little-endian integers                                        *)

Min(a, b) == IF a < b THEN a ELSE b

Take(s, n) == SubSeq(s, 1, Min(n, Len(s)))

Drop(s, n) == SubSeq(s, Min(n, Len(s)) + 1, Len(s))

RECURSIVE Concat(_)
Concat(chunks) ==
    IF chunks = <<>> THEN <<>> ELSE Head(chunks) \o Concat(Tail(chunks))

\* b"PZPK"
MAGIC_BYTES == <<80, 90, 80, 75>>

\* u32::to_le_bytes(0xDEADBEEF)
END_OF_IMAGE == <<239, 190, 173, 222>>

\* write_u32::<LE> / write_i32::<LE>: the four bytes, least significant first.
\* \div rounds down and % is non-negative, so a negative i32 gets its two's
\* complement bytes.
LE32(v) ==
    <<v % 256, (v \div 256) % 256, (v \div 65536) % 256, (v \div 16777216) % 256>>

\* The value of four little-endian bytes as an i32.
I32Of(b) ==
    b[1] + 256 * b[2] + 65536 * b[3]
      + 16777216 * (IF b[4] >= 128 THEN b[4] - 256 ELSE b[4])

\* The value of four little-endian bytes as a u32.  A value of 2^31 or more is
\* kept as 2^31 - 1: a u32 only ever serves as a length or a count here, and it
\* exceeds every stream of the model either way.
U32Of(b) ==
    IF b[4] >= 128 THEN 2147483647
    ELSE b[1] + 256 * b[2] + 65536 * b[3] + 16777216 * b[4]

Fail(r) == [ok |-> FALSE, val |-> <<>>, rest |-> r]

Ok(v, r) == [ok |-> TRUE, val |-> v, rest |-> r]

\* The ? operator: an error ends the enclosing function with that error,
\* a success goes on with what follows.
Try(x, Then(_)) == IF x.ok THEN Then(x) ELSE Fail(x.rest)

\* read_exact on a 4-byte buffer: an error unless four bytes remain.
read_exact4(r) ==
    IF Len(r) < 4 THEN Fail(r) ELSE Ok(Take(r, 4), Drop(r, 4))

read_u32(r) == Try(read_exact4(r), LAMBDA x : Ok(U32Of(x.val), x.rest))

read_i32(r) == Try(read_exact4(r), LAMBDA x : Ok(I32Of(x.val), x.rest))

\* core::str::from_utf8, as String's read_to_string applies it.
RECURSIVE ValidUtf8(_)
ValidUtf8(s) ==
    LET Cont(i) == i <= Len(s) /\ s[i] >= 128 /\ s[i] <= 191
        In(i, lo, hi) == i <= Len(s) /\ s[i] >= lo /\ s[i] <= hi
        n == IF s = <<>> THEN 0
             ELSE IF s[1] <= 127 THEN 1
             ELSE IF s[1] >= 194 /\ s[1] <= 223 /\ Cont(2) THEN 2
             ELSE IF s[1] = 224 /\ In(2, 160, 191) /\ Cont(3) THEN 3
             ELSE IF s[1] >= 225 /\ s[1] <= 236 /\ Cont(2) /\ Cont(3) THEN 3
             ELSE IF s[1] = 237 /\ In(2, 128, 159) /\ Cont(3) THEN 3
             ELSE IF s[1] >= 238 /\ s[1] <= 239 /\ Cont(2) /\ Cont(3) THEN 3
             ELSE IF s[1] = 240 /\ In(2, 144, 191) /\ Cont(3) /\ Cont(4) THEN 4
             ELSE IF s[1] >= 241 /\ s[1] <= 243 /\ Cont(2) /\ Cont(3) /\ Cont(4) THEN 4
             ELSE IF s[1] = 244 /\ In(2, 128, 143) /\ Cont(3) /\ Cont(4) THEN 4
             ELSE 0
    IN  IF s = <<>> THEN TRUE
        ELSE IF n = 0 THEN FALSE
        ELSE ValidUtf8(Drop(s, n))

----------------------------------------------------------------------------
(* Primitive codec                                                         *)

\* write_string: the two writes it makes, in order.
write_string(s) == <<LE32(Len(s)), s>>

\* write_buffer: the two writes it makes, in order.
write_buffer(b) == <<LE32(Len(b)), b>>

\* What reader.take(len) read_to_end / read_to_string pulls out of the reader:
\* bytes until the limit is reached or the reader is at its end.
TakeLimit(r, len) == Take(r, len)

read_string(r) ==
    Try(read_u32(r), LAMBDA len :
        LET got == TakeLimit(len.rest, len.val)
        IN  IF ValidUtf8(got) THEN Ok(got, Drop(len.rest, Len(got))) ELSE Fail(r))

read_buffer(r) ==
    Try(read_u32(r), LAMBDA len :
        LET got == TakeLimit(len.rest, len.val)
        IN  Ok(got, Drop(len.rest, Len(got))))

\* buf.strip_suffix(pat): whether buf ends with pat.
HasSuffix(b, pat) ==
    Len(b) >= Len(pat) /\ SubSeq(b, Len(b) - Len(pat) + 1, Len(b)) = pat

\* A length that keeps the first byte of the pattern.
StrippedLen_keepOne(b, pat) == Len(b) - Len(pat) + 1

\* stripped.len()
StrippedLen(b, pat) == Len(b) - Len(pat)

\* One pass through the loop of read_until_pattern on the state
\* [b: buf, r: reader]: "break" with the length to keep, "eof" where read_u8
\* finds no byte, or "more" with one more byte pushed.
scan_iter(b, r, pat) ==
    IF HasSuffix(b, pat)
    THEN [step |-> "break", b |-> Take(b, StrippedLen(b, pat)), r |-> r]
    ELSE IF r = <<>> THEN [step |-> "eof", b |-> b, r |-> r]
    ELSE [step |-> "more", b |-> Append(b, Head(r)), r |-> Tail(r)]

RECURSIVE scan_loop(_, _, _)
scan_loop(b, r, pat) ==
    LET it == scan_iter(b, r, pat)
    IN  IF it.step = "break" THEN Ok(it.b, it.r)
        ELSE IF it.step = "eof" THEN Fail(r)
        ELSE scan_loop(it.b, it.r, pat)

read_until_pattern(r, pat) == scan_loop(<<>>, r, pat)

----------------------------------------------------------------------------
(* The image codec.  The PNG encoder and decoder are the image crate's; the *)
(* model keeps what the container relies on: the encoding is a byte string *)
(* that determines the bitmap (a signature byte, the two dimensions, the    *)
(* four channels of every pixel, row by row), and decoding rejects any byte *)
(* string that is not the whole encoding of a bitmap.  A bitmap is         *)
(* [w, h, px], px the pixels row by row, a pixel its four channel bytes.    *)

write_png(image) == <<137, image.w, image.h>> \o Concat(image.px)

load_from_memory(b) ==
    IF Len(b) < 3 \/ b[1] # 137 THEN Fail(b)
    ELSE IF b[2] = 0 \/ b[3] = 0 \/ Len(b) # 3 + 4 * b[2] * b[3] THEN Fail(b)
    ELSE Ok([w |-> b[2], h |-> b[3],
             px |-> [i \in 1..(b[2] * b[3]) |-> SubSeq(b, 4 * i, 4 * i + 3)]], <<>>)

----------------------------------------------------------------------------
(* Entry codec                                                             *)

\* Entry::write: the writes it makes, in order.
Entry_write(e) ==
    write_string(e.name)
      \o <<LE32(e.x_pos), LE32(e.y_pos), LE32(e.width), LE32(e.height),
           LE32(e.x_offset), LE32(e.y_offset), LE32(e.total_width), LE32(e.total_height)>>

Entry_read(r) ==
    Try(read_string(r), LAMBDA name :
        LET b == name.rest
            body == [i \in 1..8 |-> U32Of(SubSeq(b, 4 * i - 3, 4 * i))]
        IN  IF Len(b) < 32 THEN Fail(b)
            ELSE Ok([name |-> name.val,
                     x_pos |-> body[1], y_pos |-> body[2],
                     width |-> body[3], height |-> body[4],
                     x_offset |-> body[5], y_offset |-> body[6],
                     total_width |-> body[7], total_height |-> body[8]],
                    Drop(b, 32)))

\* (0..entries_len).map(|_| Entry::read(&mut reader)).collect::<Result<..>>()
RECURSIVE read_entries(_, _)
read_entries(n, r) ==
    IF n = 0 THEN Ok(<<>>, r)
    ELSE Try(Entry_read(r), LAMBDA e :
         Try(read_entries(n - 1, e.rest), LAMBDA more :
             Ok(<<e.val>> \o more.val, more.rest)))

RECURSIVE EntriesWrites(_)
EntriesWrites(es) ==
    IF es = <<>> THEN <<>> ELSE Entry_write(Head(es)) \o EntriesWrites(Tail(es))

----------------------------------------------------------------------------
(* Page codec                                                              *)

\* The common head of a page: name, entries_len, mask, the entries.
page_head_write(p) ==
    write_string(p.name) \o <<LE32(Len(p.entries)), LE32(p.mask)>>
      \o EntriesWrites(p.entries)

\* Reads the common head; val is the page without its image.
page_head_read(r) ==
    Try(read_string(r), LAMBDA name :
    Try(read_u32(name.rest), LAMBDA entries_len :
    Try(read_i32(entries_len.rest), LAMBDA mask :
    Try(read_entries(entries_len.val, mask.rest), LAMBDA entries :
        Ok([name |-> name.val, mask |-> mask.val, entries |-> entries.val],
           entries.rest)))))

\* Page::write_v1 that leaves out the terminator.
Page_write_v1_unterminated(p) ==
    page_head_write(p) \o <<write_png(p.image)>>

\* Page::write_v2 that leaves out the length prefix of the image.
Page_write_v2_unframed(p) ==
    page_head_write(p) \o <<write_png(p.image)>>

\* Page::write_v1: the writes it makes, in order (write_png writes straight
\* into the writer, then the terminator follows).
Page_write_v1(p) ==
    page_head_write(p) \o <<write_png(p.image), END_OF_IMAGE>>

\* Page::write_v2: the writes it makes, in order (write_png fills a Cursor,
\* write_buffer frames it).
Page_write_v2(p) ==
    page_head_write(p) \o write_buffer(write_png(p.image))

Page_read_v1(r) ==
    Try(page_head_read(r), LAMBDA head :
    Try(read_until_pattern(head.rest, END_OF_IMAGE), LAMBDA image_buf :
    Try(load_from_memory(image_buf.val), LAMBDA image :
        Ok([name |-> head.val.name, mask |-> head.val.mask,
            entries |-> head.val.entries, image |-> image.val],
           image_buf.rest))))

Page_read_v2(r) ==
    Try(page_head_read(r), LAMBDA head :
    Try(read_buffer(head.rest), LAMBDA image_buf :
    Try(load_from_memory(image_buf.val), LAMBDA image :
        Ok([name |-> head.val.name, mask |-> head.val.mask,
            entries |-> head.val.entries, image |-> image.val],
           image_buf.rest))))

----------------------------------------------------------------------------
(* Pack codec                                                              *)

DEFAULT_MASK == 1

\* Pack::new
Pack_new(pages) == [mask |-> DEFAULT_MASK, pages |-> pages]

Page_read(v, r) == IF v = "V1" THEN Page_read_v1(r) ELSE Page_read_v2(r)

\* (0..pages_len).map(|_| Page::read_vN(&mut reader)).collect::<Result<..>>()
RECURSIVE read_pages(_, _, _)
read_pages(v, n, r) ==
    IF n = 0 THEN Ok(<<>>, r)
    ELSE Try(Page_read(v, r), LAMBDA p :
         Try(read_pages(v, n - 1, p.rest), LAMBDA more :
             Ok(<<p.val>> \o more.val, more.rest)))

Pack_read_v1(r) ==
    Try(read_u32(r), LAMBDA pages_len :
    Try(read_pages("V1", pages_len.val, pages_len.rest), LAMBDA pages :
        Ok([mask |-> DEFAULT_MASK, pages |-> pages.val], pages.rest)))

\* Pack::read_v2 that skips the stored mask and returns the default.
Pack_read_v2_defaultMask(r) ==
    Try(read_i32(r), LAMBDA mask :
    Try(read_u32(mask.rest), LAMBDA pages_len :
    Try(read_pages("V2", pages_len.val, pages_len.rest), LAMBDA pages :
        Ok([mask |-> DEFAULT_MASK, pages |-> pages.val], pages.rest))))

Pack_read_v2(r) ==
    Try(read_i32(r), LAMBDA mask :
    Try(read_u32(mask.rest), LAMBDA pages_len :
    Try(read_pages("V2", pages_len.val, pages_len.rest), LAMBDA pages :
        Ok([mask |-> mask.val, pages |-> pages.val], pages.rest))))

\* A legacy dispatch that throws the four sniffed bytes away.
Chain_dropFirst(first, second) == second

\* Cursor::new(magic_bytes).chain(reader)
Chain(first, second) == first \o second

\* Pack::read: the reader it dispatches to and that reader's result.
Pack_read(r) ==
    LET magic_bytes == read_exact4(r)
    IN  IF ~magic_bytes.ok THEN [variant |-> "none", res |-> Fail(r)]
        ELSE IF magic_bytes.val = MAGIC_BYTES
        THEN [variant |-> "V2", res |-> Pack_read_v2(magic_bytes.rest)]
        ELSE [variant |-> "V1",
              res |-> Pack_read_v1(Chain(magic_bytes.val, magic_bytes.rest))]

\* Pack::write_v1 before its page loop: the writes it makes, in order.
Pack_write_v1_head(p) == <<LE32(Len(p.pages))>>

\* Pack::write_v2 before its page loop: the writes it makes, in order.
Pack_write_v2_head(p) == <<MAGIC_BYTES, LE32(p.mask), LE32(Len(p.pages))>>

Pack_write_head(v, p) ==
    IF v = "V1" THEN Pack_write_v1_head(p) ELSE Pack_write_v2_head(p)

Page_write(v, p) == IF v = "V1" THEN Page_write_v1(p) ELSE Page_write_v2(p)

----------------------------------------------------------------------------
(* The packs and byte streams the codec is run on                          *)

MaxPages == 2
MaxEntries == 2
MaxRawTail == 8

\* All sequences over S of length at most n.
SeqsUpTo(S, n) == UNION { [1..k -> S] : k \in 0..n }

Transparent == <<0, 0, 0, 0>>
Opaque == <<255, 16, 0, 255>>

\* A 1x1 transparent bitmap, a 2x1 bitmap, and a 1x1 bitmap whose only pixel
\* has the channel values EF BE AD DE.
ImageA == [w |-> 1, h |-> 1, px |-> <<Transparent>>]
ImageB == [w |-> 2, h |-> 1, px |-> <<Opaque, Transparent>>]
ImageT == [w |-> 1, h |-> 1, px |-> <<END_OF_IMAGE>>]

MkEntry(name, g) ==
    [name |-> name, x_pos |-> g[1], y_pos |-> g[2], width |-> g[3], height |-> g[4],
     x_offset |-> g[5], y_offset |-> g[6], total_width |-> g[7], total_height |-> g[8]]

\* Entries named "a", "" and "é" (C3 A9).
EntryPool ==
    { MkEntry(<<97>>, <<0, 0, 1, 1, 0, 0, 1, 1>>),
      MkEntry(<<>>, <<0, 0, 1, 1, 1, 0, 2, 1>>),
      MkEntry(<<195, 169>>, <<1, 0, 1, 1, 1, 2, 3, 4>>) }

\* The Entry invariants against an atlas of the given size.
EntryValid(e, w, h) ==
    /\ e.width > 0 /\ e.height > 0
    /\ e.x_pos + e.width <= w /\ e.y_pos + e.height <= h
    /\ e.total_width > 0 /\ e.total_height > 0
    /\ e.x_offset + e.width <= e.total_width
    /\ e.y_offset + e.height <= e.total_height

\* Names are unique within their owner (the tool keeps a page's entries in a
\* map keyed by name, and names a page after its file).
UniqueNames(q) == \A i, j \in 1..Len(q) : q[i].name = q[j].name => i = j

\* Page name, page mask and image go together: "", "p" and "pq".
PageShells ==
    { [name |-> <<>>, mask |-> -1, image |-> ImageA],
      [name |-> <<112>>, mask |-> 258, image |-> ImageB],
      [name |-> <<112, 113>>, mask |-> 1, image |-> ImageT] }

\* The entry sequences a page with the given atlas may hold.
EntrySeqs(image) ==
    { q \in SeqsUpTo(EntryPool, MaxEntries) :
        /\ UniqueNames(q)
        /\ \A i \in 1..Len(q) : EntryValid(q[i], image.w, image.h) }

PagePool ==
    UNION { { [name |-> sh.name, mask |-> sh.mask, entries |-> es, image |-> sh.image] :
                es \in EntrySeqs(sh.image) } : sh \in PageShells }

PackMasks == {-1, DEFAULT_MASK}

Packs ==
    { [mask |-> m, pages |-> ps] :
        m \in PackMasks, ps \in { q \in SeqsUpTo(PagePool, MaxPages) : UniqueNames(q) } }

\* Byte streams that no write of the model produced: a few leading bytes
\* followed by any short tail.
RawHeads == { <<>>, MAGIC_BYTES, <<80, 90, 80>>, <<80, 90, 80, 76>>, <<0, 0, 0, 0>> }
RawBytes == {0, 255}
RawStreams == { h \o t : h \in RawHeads, t \in SeqsUpTo(RawBytes, MaxRawTail) }

----------------------------------------------------------------------------
(* Spec: one write call on a sink, or one stream given, then one read      *)

NoImage == [w |-> 0, h |-> 0, px |-> <<>>]
NoConfig == [pos |-> <<0, 0>>, size |-> <<0, 0>>, has_frame |-> FALSE,
             frame_offset |-> <<0, 0>>, frame_size |-> <<0, 0>>]
NoEntry == [status |-> "none", entry |-> MkEntry(<<>>, <<0, 0, 0, 0, 0, 0, 0, 0>>),
            name |-> <<>>, a |-> <<0, 0>>, b |-> <<0, 0>>]
NoResult == [status |-> "none", image |-> NoImage]
NoOrig == [has |-> FALSE, mapped |-> FALSE, name |-> <<>>,
           entry |-> MkEntry(<<>>, <<0, 0, 0, 0, 0, 0, 0, 0>>)]

PrimIdle == input = <<>> /\ buf = <<>> /\ pos = 0 /\ pres = [prim |-> "none", res |-> Fail(<<>>)]
GeomIdle ==
    atlas = NoImage /\ orig = NoOrig /\ cfg = NoConfig /\ eres = NoEntry /\ ires = NoResult
CodecIdle ==
    /\ pack = Pack_new(<<>>) /\ version = "V2" /\ pc = "idle" /\ pageIdx = 0
    /\ sink = <<>> /\ flushedLen = 0 /\ flushes = 0 /\ wres = "none"
    /\ variant = "none" /\ rres = Fail(<<>>)

\* A Pack in memory, nothing written yet.
InitPack ==
    /\ pack \in Packs
    /\ version = "V2" /\ pc = "start" /\ pageIdx = 0
    /\ sink = <<>> /\ flushedLen = 0 /\ flushes = 0 /\ wres = "none"
    /\ variant = "none" /\ rres = Fail(<<>>)

\* A byte stream from elsewhere, complete on its medium.
InitRaw ==
    /\ sink \in RawStreams
    /\ flushedLen = Len(sink)
    /\ pack = Pack_new(<<>>)
    /\ version = "V2" /\ pc = "raw" /\ pageIdx = 0
    /\ flushes = 0 /\ wres = "none"
    /\ variant = "none" /\ rres = Fail(<<>>)

Init == (InitPack \/ InitRaw) /\ PrimIdle /\ GeomIdle

\* Pack::write: always write_v2.
Pack_write_version == "V2"

\* Pack::write_with: the version asked for.
Pack_write_with_version(v) == v

CallWrite ==
    /\ pc = "start"
    /\ version' = Pack_write_version
    /\ pc' = "head"
    /\ UNCHANGED <<pack, pageIdx, sink, flushedLen, flushes, wres, variant, rres>>
    /\ UNCHANGED <<primVars, geomVars>>

CallWriteWith ==
    /\ pc = "start"
    /\ \E v \in {"V1", "V2"} : version' = Pack_write_with_version(v)
    /\ pc' = "head"
    /\ UNCHANGED <<pack, pageIdx, sink, flushedLen, flushes, wres, variant, rres>>
    /\ UNCHANGED <<primVars, geomVars>>

\* A series of writes that all succeed.
Written(writes) == sink \o Concat(writes)

\* A series of writes of which one fails: those before it reached the sink,
\* and the ? operator returns the error at once.
FailsWithin(writes) ==
    /\ \E k \in 0..(Len(writes) - 1) : sink' = sink \o Concat(Take(writes, k))
    /\ wres' = "Err"
    /\ pc' = "returned"

\* The writes before the page loop.
WriteHead ==
    /\ pc = "head"
    /\ sink' = Written(Pack_write_head(version, pack))
    /\ pc' = "pages"
    /\ UNCHANGED <<pack, version, pageIdx, flushedLen, flushes, wres, variant, rres>>
    /\ UNCHANGED <<primVars, geomVars>>

WriteHeadFails ==
    /\ pc = "head"
    /\ FailsWithin(Pack_write_head(version, pack))
    /\ UNCHANGED <<pack, version, pageIdx, flushedLen, flushes, variant, rres>>
    /\ UNCHANGED <<primVars, geomVars>>

\* One turn of the page loop.
WritePage ==
    /\ pc = "pages"
    /\ pageIdx < Len(pack.pages)
    /\ sink' = Written(Page_write(version, pack.pages[pageIdx + 1]))
    /\ pageIdx' = pageIdx + 1
    /\ UNCHANGED <<pack, version, pc, flushedLen, flushes, wres, variant, rres>>
    /\ UNCHANGED <<primVars, geomVars>>

WritePageFails ==
    /\ pc = "pages"
    /\ pageIdx < Len(pack.pages)
    /\ FailsWithin(Page_write(version, pack.pages[pageIdx + 1]))
    /\ UNCHANGED <<pack, version, pageIdx, flushedLen, flushes, variant, rres>>
    /\ UNCHANGED <<primVars, geomVars>>

\* A write that returns without flushing.
FlushedThrough_nothing(accepted) == 0

\* writer.flush(): everything the sink has accepted is pushed through.
FlushedThrough(accepted) == Len(accepted)

\* The flush after the loop, then Ok(()).
Flush ==
    /\ pc = "pages"
    /\ pageIdx = Len(pack.pages)
    /\ flushedLen' = FlushedThrough(sink)
    /\ flushes' = flushes + 1
    /\ wres' = "Ok"
    /\ pc' = "returned"
    /\ UNCHANGED <<pack, version, pageIdx, sink, variant, rres>>
    /\ UNCHANGED <<primVars, geomVars>>

\* A failing flush returns its error; what it pushed through is unknown and
\* counted as nothing.
FlushFails ==
    /\ pc = "pages"
    /\ pageIdx = Len(pack.pages)
    /\ wres' = "Err"
    /\ pc' = "returned"
    /\ UNCHANGED <<pack, version, pageIdx, sink, flushedLen, flushes, variant, rres>>
    /\ UNCHANGED <<primVars, geomVars>>

\* The bytes a reader of the sink's medium finds.
Delivered == Take(sink, flushedLen)

\* Pack::read on the stream a successful write left, or on the given stream.
Read ==
    /\ \/ pc = "returned" /\ wres = "Ok"
       \/ pc = "raw"
    /\ LET d == Pack_read(Delivered)
       IN  variant' = d.variant /\ rres' = d.res
    /\ pc' = "done"
    /\ UNCHANGED <<pack, version, pageIdx, sink, flushedLen, flushes, wres>>
    /\ UNCHANGED <<primVars, geomVars>>

Next ==
    \/ CallWrite
    \/ CallWriteWith
    \/ WriteHead
    \/ WriteHeadFails
    \/ WritePage
    \/ WritePageFails
    \/ Flush
    \/ FlushFails
    \/ Read

Spec == Init /\ [][Next]_vars

----------------------------------------------------------------------------
(* SpecPrim: one primitive read on one byte stream                         *)

MaxStrLen == 3
MaxScanLen == 4

\* 'a' and the two bytes of 'é'; either byte of 'é' alone is not UTF-8.
StrBytes == {97, 195, 169}

\* Length prefixes: 0 .. MaxStrLen + 1, 256, and one cut short.
LenPrefixes ==
    { LE32(n) : n \in 0..(MaxStrLen + 1) } \cup { <<0, 1, 0, 0>>, <<2, 0>> }

StrStreams == { p \o b : p \in LenPrefixes, b \in SeqsUpTo(StrBytes, MaxStrLen) }

ScanBytes == {1, 2, 239, 190, 173, 222}
ScanTails == { <<>>, END_OF_IMAGE, END_OF_IMAGE \o <<1>> }
ScanStreams == { t \o e : t \in SeqsUpTo(ScanBytes, MaxScanLen), e \in ScanTails }

NoPrim == [prim |-> "none", res |-> Fail(<<>>)]

InitPrim ==
    /\ input \in StrStreams \cup ScanStreams
    /\ buf = <<>> /\ pos = 0 /\ pres = NoPrim
    /\ CodecIdle /\ GeomIdle

\* The reader of the running primitive: input from pos on.
Reader == Drop(input, pos)

Consumed(res) == Len(input) - Len(res.rest)

DoReadString ==
    /\ pres.prim = "none"
    /\ LET res == read_string(input)
       IN  pres' = [prim |-> "read_string", res |-> res] /\ pos' = Consumed(res)
    /\ UNCHANGED <<input, buf>>
    /\ UNCHANGED <<codecVars, geomVars>>

DoReadBuffer ==
    /\ pres.prim = "none"
    /\ LET res == read_buffer(input)
       IN  pres' = [prim |-> "read_buffer", res |-> res] /\ pos' = Consumed(res)
    /\ UNCHANGED <<input, buf>>
    /\ UNCHANGED <<codecVars, geomVars>>

\* read_until_pattern(reader, &END_OF_IMAGE) is entered: buf = Vec::new().
ScanStart ==
    /\ pres.prim = "none"
    /\ pres' = [prim |-> "scanning", res |-> Fail(<<>>)]
    /\ UNCHANGED <<input, buf, pos>>
    /\ UNCHANGED <<codecVars, geomVars>>

\* buf does not end with the pattern: buf.push(reader.read_u8()?).
ScanMore ==
    /\ pres.prim = "scanning"
    /\ LET it == scan_iter(buf, Reader, END_OF_IMAGE)
       IN  /\ it.step = "more"
           /\ buf' = it.b
           /\ pos' = Len(input) - Len(it.r)
    /\ UNCHANGED <<input, pres>>
    /\ UNCHANGED <<codecVars, geomVars>>

\* buf ends with the pattern: break, truncate, Ok(buf).
ScanBreak ==
    /\ pres.prim = "scanning"
    /\ LET it == scan_iter(buf, Reader, END_OF_IMAGE)
       IN  /\ it.step = "break"
           /\ buf' = it.b
           /\ pres' = [prim |-> "read_until_pattern", res |-> Ok(it.b, it.r)]
    /\ UNCHANGED <<input, pos>>
    /\ UNCHANGED <<codecVars, geomVars>>

\* read_u8 finds the reader at its end: the error is returned.
ScanEof ==
    /\ pres.prim = "scanning"
    /\ LET it == scan_iter(buf, Reader, END_OF_IMAGE)
       IN  /\ it.step = "eof"
           /\ pres' = [prim |-> "read_until_pattern", res |-> Fail(it.r)]
    /\ UNCHANGED <<input, buf, pos>>
    /\ UNCHANGED <<codecVars, geomVars>>

NextPrim ==
    \/ DoReadString
    \/ DoReadBuffer
    \/ ScanStart
    \/ ScanMore
    \/ ScanBreak
    \/ ScanEof

SpecPrim == InitPrim /\ [][NextPrim]_vars

----------------------------------------------------------------------------
(* Atlas compositor and entry geometry validator                           *)
(*                                                                         *)
(* A UVec2 is a pair <<x, y>>.  The coordinates of the model stay far      *)
(* below 2^32, so no u32 addition here wraps.                              *)

\* The pixel at (x, y) of a bitmap, 0 <= x < w, 0 <= y < h.
get_pixel(image, x, y) == image.px[y * image.w + x + 1]

\* RgbaImage::from_pixel(w, h, p)
from_pixel(w, h, p) == [w |-> w, h |-> h, px |-> [i \in 1..(w * h) |-> p]]

\* imageops::crop_imm: the view's rectangle, clamped to the bitmap.
crop_imm(image, x, y, width, height) ==
    LET cx == Min(x, image.w)
        cy == Min(y, image.h)
    IN  [x |-> cx, y |-> cy,
         w |-> Min(width, image.w - cx), h |-> Min(height, image.h - cy)]

\* GenericImage::copy_from(view of base, x, y) into out: an error when the
\* view does not fit, else every pixel of the view is put at its place.
copy_from(out, base, view, x, y) ==
    IF out.w < view.w + x \/ out.h < view.h + y
    THEN [status |-> "Err", image |-> out]
    ELSE [status |-> "Ok",
          image |-> [w |-> out.w, h |-> out.h,
                     px |-> [i \in 1..(out.w * out.h) |->
                        LET ox == (i - 1) % out.w
                            oy == (i - 1) \div out.w
                        IN  IF /\ x <= ox /\ ox < x + view.w
                               /\ y <= oy /\ oy < y + view.h
                            THEN get_pixel(base, view.x + (ox - x), view.y + (oy - y))
                            ELSE out.px[i]]]]

\* Entry::get_image that puts the view at the origin of the frame.
get_image_atOrigin(entry, base) ==
    LET out == from_pixel(entry.total_width, entry.total_height, <<0, 0, 0, 0>>)
        view == crop_imm(base, entry.x_pos, entry.y_pos, entry.width, entry.height)
        copied == copy_from(out, base, view, 0, 0)
    IN  IF copied.status = "Ok" THEN [status |-> "Ok", image |-> copied.image]
        ELSE [status |-> "panic", image |-> out]

\* Entry::get_image; the unwrap of copy_from's result panics on an error.
get_image(entry, base) ==
    LET out == from_pixel(entry.total_width, entry.total_height, <<0, 0, 0, 0>>)
        view == crop_imm(base, entry.x_pos, entry.y_pos, entry.width, entry.height)
        copied == copy_from(out, base, view, entry.x_offset, entry.y_offset)
    IN  IF copied.status = "Ok" THEN [status |-> "Ok", image |-> copied.image]
        ELSE [status |-> "panic", image |-> out]

\* Page::get_entry_image: None for an index past the entries.
get_entry_image(entries, image, index) ==
    IF index < Len(entries) THEN get_image(entries[index + 1], image)
    ELSE [status |-> "None", image |-> [w |-> 0, h |-> 0, px |-> <<>>]]

\* UVec2: a.cmplt(b).any(), a.cmpgt(b).any(), a + b
cmplt_any(a, b) == a[1] < b[1] \/ a[2] < b[2]
cmpgt_any(a, b) == a[1] > b[1] \/ a[2] > b[2]
vadd(a, b) == <<a[1] + b[1], a[2] + b[2]>>
ZERO == <<0, 0>>

\* self.size == UVec2::ZERO || image_size.cmplt(self.pos + self.size).any()
sub_image_too_big(c, image_size) ==
    c.size = ZERO \/ cmplt_any(image_size, vadd(c.pos, c.size))

\* frame.size == UVec2::ZERO || self.size.cmpgt(frame.offset + frame.size).any()
frame_too_small(c, frame) ==
    frame.size = ZERO \/ cmpgt_any(c.size, vadd(frame.offset, frame.size))

\* self.frame.unwrap_or(EntryConfigFrame { offset: UVec2::ZERO, size: self.size })
frame_or_default(c) ==
    IF c.has_frame THEN [offset |-> c.frame_offset, size |-> c.frame_size]
    ELSE [offset |-> ZERO, size |-> c.size]

\* EntryConfig::into_entry: Ok(entry), or the error with its two dimensions.
into_entry(c, name, image) ==
    LET image_size == <<image.w, image.h>>
        frame == frame_or_default(c)
        entry == MkEntry(name, <<c.pos[1], c.pos[2], c.size[1], c.size[2],
                                 frame.offset[1], frame.offset[2],
                                 frame.size[1], frame.size[2]>>)
    IN  IF sub_image_too_big(c, image_size)
        THEN [status |-> "SubImageTooBig", entry |-> entry, name |-> name,
              a |-> c.size, b |-> image_size]
        ELSE IF frame_too_small(c, frame)
        THEN [status |-> "FrameTooSmall", entry |-> entry, name |-> name,
              a |-> frame.size, b |-> c.size]
        ELSE [status |-> "Ok", entry |-> entry, name |-> name, a |-> ZERO, b |-> ZERO]

\* EntryConfig::from_entry: the name and the config; the frame is kept when
\* frame_offset != pos && frame_size != size.
from_entry(e) ==
    LET epos == <<e.x_pos, e.y_pos>>
        size == <<e.width, e.height>>
        frame_offset == <<e.x_offset, e.y_offset>>
        frame_size == <<e.total_width, e.total_height>>
        some == frame_offset # epos /\ frame_size # size
    IN  [name |-> e.name,
         config |-> [pos |-> epos, size |-> size, has_frame |-> some,
                     frame_offset |-> IF some THEN frame_offset ELSE ZERO,
                     frame_size |-> IF some THEN frame_size ELSE ZERO]]

----------------------------------------------------------------------------
(* SpecGeom: one entry config, given or mapped from an entry, validated    *)
(* against one atlas, then composed                                        *)

MaxAtlas == 2
MaxPos == 1
MaxSize == 2
MaxFrameOffset == 1
MaxFrameSize == 3

\* The atlas of the given size whose pixel at (x, y) is <<x + 1, y + 1, 7, 255>>:
\* every pixel tells where it comes from, and none is transparent.
AtlasPixel(x, y) == <<x + 1, y + 1, 7, 255>>
AtlasOf(w, h) ==
    [w |-> w, h |-> h,
     px |-> [i \in 1..(w * h) |-> AtlasPixel((i - 1) % w, (i - 1) \div w)]]

Atlases == { AtlasOf(w, h) : w \in 0..MaxAtlas, h \in 0..MaxAtlas }

Vecs(n) == (0..n) \X (0..n)

Configs ==
    { [pos |-> p, size |-> z, has_frame |-> FALSE, frame_offset |-> ZERO, frame_size |-> ZERO] :
        p \in Vecs(MaxPos), z \in Vecs(MaxSize) }
    \cup
    { [pos |-> p, size |-> z, has_frame |-> TRUE, frame_offset |-> fo, frame_size |-> fz] :
        p \in Vecs(MaxPos), z \in Vecs(MaxSize),
        fo \in Vecs(MaxFrameOffset), fz \in Vecs(MaxFrameSize) }

\* The name the entry is given (the key of the config in its page).
EntryName == <<97>>

\* The entries of an unpacked page, named "b": whatever geometry the pack
\* file held, within the bounds.
Entries ==
    { MkEntry(<<98>>, <<p[1], p[2], z[1], z[2], fo[1], fo[2], fz[1], fz[2]>>) :
        p \in Vecs(MaxPos), z \in Vecs(MaxSize),
        fo \in Vecs(MaxFrameOffset), fz \in Vecs(MaxFrameSize) }

\* Either a config written by hand, or an entry still to be mapped to one.
InitGeom ==
    /\ atlas \in Atlases
    /\ \/ /\ cfg \in Configs
          /\ orig = [NoOrig EXCEPT !.name = EntryName]
       \/ /\ cfg = NoConfig
          /\ \E e \in Entries : orig = [NoOrig EXCEPT !.has = TRUE, !.entry = e]
    /\ eres = NoEntry /\ ires = NoResult
    /\ CodecIdle /\ PrimIdle

FromEntry ==
    /\ orig.has /\ ~orig.mapped
    /\ LET r == from_entry(orig.entry)
       IN  /\ cfg' = r.config
           /\ orig' = [orig EXCEPT !.mapped = TRUE, !.name = r.name]
    /\ UNCHANGED <<atlas, eres, ires>>
    /\ UNCHANGED <<codecVars, primVars>>

IntoEntry ==
    /\ orig.has => orig.mapped
    /\ eres.status = "none"
    /\ eres' = into_entry(cfg, orig.name, atlas)
    /\ UNCHANGED <<atlas, orig, cfg, ires>>
    /\ UNCHANGED <<codecVars, primVars>>

GetImage ==
    /\ eres.status = "Ok"
    /\ ires.status = "none"
    /\ ires' = get_image(eres.entry, atlas)
    /\ UNCHANGED <<atlas, orig, cfg, eres>>
    /\ UNCHANGED <<codecVars, primVars>>

\* The page holds the one validated entry.
GetEntryImage ==
    /\ eres.status = "Ok"
    /\ ires.status = "none"
    /\ \E index \in 0..1 : ires' = get_entry_image(<<eres.entry>>, atlas, index)
    /\ UNCHANGED <<atlas, orig, cfg, eres>>
    /\ UNCHANGED <<codecVars, primVars>>

NextGeom ==
    \/ FromEntry
    \/ IntoEntry
    \/ GetImage
    \/ GetEntryImage

SpecGeom == InitGeom /\ [][NextGeom]_vars

----------------------------------------------------------------------------
(* Properties                                                              *)

WroteOk(v) == pc = "done" /\ wres = "Ok" /\ version = v

\* Whether pat occurs in s, and where it first starts.
OccursAt(s, pat, k) == k >= 1 /\ k + Len(pat) - 1 <= Len(s) /\ SubSeq(s, k, k + Len(pat) - 1) = pat
Occurs(s, pat) == \E k \in 1..Len(s) : OccursAt(s, pat, k)
FirstOcc(s, pat) ==
    CHOOSE k \in 1..Len(s) :
        OccursAt(s, pat, k) /\ \A j \in 1..(k - 1) : ~OccursAt(s, pat, j)

\* No page's encoded image holds the legacy terminator.
TerminatorFree(p) ==
    \A i \in 1..Len(p.pages) : ~Occurs(write_png(p.pages[i].image), END_OF_IMAGE)

\* C1: a pack written in the current format (Pack::write, or write_with V2)
\* and read back with Pack::read gives Ok and the pack it was: the same pack
\* mask, the same pages in order, each with its name, mask, entries and image.
C1_RoundTripV2 ==
    WroteOk("V2") => rres.ok /\ rres.val = pack

C1_Witness ==
    /\ WroteOk("V2") /\ rres.ok
    /\ pack.mask = -1
    /\ Len(pack.pages) = 2
    /\ Len(pack.pages[1].entries) = 2
    /\ pack.pages[2].image = ImageT

\* C2 as stated: a pack written in the legacy format and read back with
\* Pack::read gives Ok and a pack equal to the original in every field, the
\* pack mask included.
C2_RoundTripV1_AsStated ==
    WroteOk("V1") => rres.ok /\ rres.val = pack

\* C2 as amended: a pack written in the legacy format, none of whose encoded
\* images holds the bytes EF BE AD DE, reads back Ok with the same pages in
\* order (names, masks, entries, images) and with the pack mask DEFAULT_MASK,
\* whatever the pack mask was.
C2_RoundTripV1 ==
    (WroteOk("V1") /\ TerminatorFree(pack)) =>
        /\ rres.ok
        /\ rres.val.pages = pack.pages
        /\ rres.val.mask = DEFAULT_MASK

C2_Witness ==
    /\ WroteOk("V1") /\ TerminatorFree(pack) /\ rres.ok
    /\ pack.mask = -1
    /\ Len(pack.pages) = 2
    /\ Len(pack.pages[2].entries) = 2

\* C3: Pack::read of a stream that starts with PZPK is the current reader's
\* result on the stream from byte 4 on; of a stream with four other leading
\* bytes it is the legacy reader's result on the whole stream from byte 0, so
\* that the four bytes are the page count of what it returns.
C3_VariantDetection ==
    (pc = "done" /\ Len(Delivered) >= 4) =>
        IF Take(Delivered, 4) = MAGIC_BYTES
        THEN variant = "V2" /\ rres = Pack_read_v2(Drop(Delivered, 4))
        ELSE /\ variant = "V1"
             /\ rres = Pack_read_v1(Delivered)
             /\ rres.ok => LE32(Len(rres.val.pages)) = Take(Delivered, 4)

C3_Witness ==
    /\ pc = "done" /\ variant = "V1" /\ rres.ok
    /\ Len(rres.val.pages) = 2
    /\ Take(Delivered, 4) = <<2, 0, 0, 0>>

\* C4: a successful Pack::read through the legacy reader returns the pack
\* mask DEFAULT_MASK; a successful one through the current reader returns the
\* i32 whose little-endian bytes are bytes 4..8 of the stream.
C4_MaskOnDecode ==
    (pc = "done" /\ rres.ok) =>
        /\ variant = "V1" => rres.val.mask = DEFAULT_MASK
        /\ variant = "V2" =>
              /\ LE32(rres.val.mask) = SubSeq(Delivered, 5, 8)
              /\ rres.val.mask >= -2147483647 - 1
              /\ rres.val.mask <= 2147483647

C4_Witness ==
    /\ pc = "done" /\ rres.ok /\ variant = "V2"
    /\ wres = "none"
    /\ rres.val.mask < -1

\* The entry the validator returned, and its place in the composed bitmap.
InFrame(e, x, y) ==
    /\ e.x_offset <= x /\ x < e.x_offset + e.width
    /\ e.y_offset <= y /\ y < e.y_offset + e.height

Composed == ires.status \in {"Ok", "panic"}

\* C5: for an entry that satisfies the Entry invariants against its atlas,
\* get_image returns a bitmap of total_width x total_height whose pixel at
\* (x_offset + i, y_offset + j), for i < width and j < height, is the atlas
\* pixel at (x_pos + i, y_pos + j), and whose other pixels are all zero; the
\* atlas is as it was.
C5_Compositor ==
    (Composed /\ EntryValid(eres.entry, atlas.w, atlas.h)) =>
        LET e == eres.entry
            out == ires.image
        IN  /\ ires.status = "Ok"
            /\ out.w = e.total_width /\ out.h = e.total_height
            /\ Len(out.px) = out.w * out.h
            /\ \A x \in 0..(out.w - 1), y \in 0..(out.h - 1) :
                  get_pixel(out, x, y) =
                      IF InFrame(e, x, y)
                      THEN AtlasPixel(e.x_pos + (x - e.x_offset), e.y_pos + (y - e.y_offset))
                      ELSE <<0, 0, 0, 0>>
            /\ atlas = AtlasOf(atlas.w, atlas.h)

C5_Witness ==
    /\ Composed /\ EntryValid(eres.entry, atlas.w, atlas.h)
    /\ cfg.pos = <<1, 1>> /\ cfg.size = <<1, 1>>
    /\ cfg.has_frame /\ cfg.frame_offset = <<1, 1>> /\ cfg.frame_size = <<3, 3>>
    /\ get_pixel(ires.image, 1, 1) = AtlasPixel(1, 1)

\* C6 as stated: into_entry rejects with SubImageTooBig(name, size, atlas
\* size) when size is zero in either axis or pos + size exceeds the atlas in
\* either axis, and does not reject with SubImageTooBig otherwise.
C6_SubImageTooBig_AsStated ==
    eres.status # "none" =>
        LET too_big == \/ cfg.size[1] = 0 \/ cfg.size[2] = 0
                       \/ cfg.pos[1] + cfg.size[1] > atlas.w
                       \/ cfg.pos[2] + cfg.size[2] > atlas.h
        IN  IF too_big
            THEN /\ eres.status = "SubImageTooBig"
                 /\ eres.name = orig.name
                 /\ eres.a = cfg.size
                 /\ eres.b = <<atlas.w, atlas.h>>
            ELSE eres.status # "SubImageTooBig"

\* C7 as stated: an entry into_entry returns as Ok has a positive frame size
\* and frame_offset + size within the frame size in both axes, and get_image
\* on it and the atlas it was validated against does not panic.
C7_ValidatedIsSafe_AsStated ==
    /\ eres.status = "Ok" =>
          /\ eres.entry.total_width > 0 /\ eres.entry.total_height > 0
          /\ eres.entry.x_offset + eres.entry.width <= eres.entry.total_width
          /\ eres.entry.y_offset + eres.entry.height <= eres.entry.total_height
    /\ Composed => ires.status = "Ok"

\* C8 as stated: every write call that has returned has flushed the sink, and
\* the flush came after the last byte written.
C8_FlushOnWrite_AsStated ==
    wres # "none" => flushes = 1 /\ flushedLen = Len(sink)

\* C8 as amended: every write call that returns Ok, in either format, has
\* flushed the sink once, after the last byte it wrote, so every byte written
\* is pushed through; a call that returns an error has returned at the failing
\* step and has not flushed.
C8_FlushOnWrite ==
    /\ wres = "Ok" => flushes = 1 /\ flushedLen = Len(sink)
    /\ wres = "Err" => flushes = 0

C8_Witness ==
    /\ wres = "Ok" /\ pc = "returned" /\ version = "V1"
    /\ Len(pack.pages) = 2
    /\ flushedLen = Len(sink) /\ Len(sink) > 4

\* C9 as stated: read_string and read_buffer fail when the length prefix
\* declares more bytes than remain, read_string fails when the declared bytes
\* are not UTF-8, and on success the value has the declared number of bytes
\* and the reader stands right after them.
C9_LengthPrefixed_AsStated ==
    (pres.prim \in {"read_string", "read_buffer"} /\ Len(input) >= 4) =>
        LET declared == U32Of(Take(input, 4))
            remain == Len(input) - 4
        IN  /\ declared > remain => ~pres.res.ok
            /\ (/\ pres.prim = "read_string"
                /\ declared <= remain
                /\ ~ValidUtf8(SubSeq(input, 5, 4 + declared))) => ~pres.res.ok
            /\ pres.res.ok =>
                  /\ Len(pres.res.val) = declared
                  /\ pos = 4 + declared

\* C10: read_until_pattern with the pattern EF BE AD DE holds, while it runs,
\* exactly the bytes read so far, none of which ended an occurrence of the
\* pattern before the last one read; it returns the bytes before the first
\* occurrence of the pattern, having consumed up to the pattern's last byte
\* and no further; it returns an error exactly when the stream ends with no
\* occurrence of the pattern.
C10_TerminatorScan ==
    /\ pres.prim = "scanning" =>
          /\ buf = Take(input, pos)
          /\ ~Occurs(Take(input, pos - 1), END_OF_IMAGE)
    /\ (pres.prim = "read_until_pattern" /\ pres.res.ok) =>
          /\ Occurs(input, END_OF_IMAGE)
          /\ pres.res.val = Take(input, FirstOcc(input, END_OF_IMAGE) - 1)
          /\ pos = FirstOcc(input, END_OF_IMAGE) + 3
          /\ pres.res.rest = Drop(input, pos)
    /\ (pres.prim = "read_until_pattern" /\ ~pres.res.ok) =>
          /\ ~Occurs(input, END_OF_IMAGE)
          /\ pos = Len(input)

C10_Witness ==
    /\ pres.prim = "read_until_pattern" /\ pres.res.ok
    /\ input = <<1, 2, 239, 190, 173, 222>>
    /\ pres.res.val = <<1, 2>>

\* C11 as stated: for an entry that satisfies the Entry invariants against
\* the atlas, from_entry omits the frame exactly when the entry's frame is the
\* default one (frame_offset = (0,0) and frame_size = size) and keeps it
\* otherwise, and into_entry on the config from_entry gave returns Ok with an
\* entry equal to the original in all nine fields.
C11_FrameOmission_AsStated ==
    (orig.has /\ orig.mapped /\ EntryValid(orig.entry, atlas.w, atlas.h)) =>
        LET e == orig.entry
            isDefault == /\ <<e.x_offset, e.y_offset>> = ZERO
                         /\ <<e.total_width, e.total_height>> = <<e.width, e.height>>
        IN  /\ cfg.has_frame <=> ~isDefault
            /\ eres.status # "none" => eres.status = "Ok" /\ eres.entry = e

=============================================================================
